---------------------------- MODULE Spec2Model ----------------------------
(***************************************************************************)
(* A model of jitboy's memory core, src/src/memory.c: the 64KiB guest      *)
(* address space, ROM bank switching by remapping, RAM bank switching by   *)
(* copying, the I/O register traps and the invalidation of compiled        *)
(* high-memory blocks.  Numbers are written as in the source (\h = hex).   *)
(***************************************************************************)
EXTENDS Integers, Sequences, FiniteSets, TLC

VARIABLES
    pc,              \* where the session is: "start", "ready", "init_failed", "freed", "crashed"
    rom,             \* the environment: [file: is a ROM file given, cart: its byte 0x0147 as an mbc enumerator]
    mem,             \* gb_memory: fd, mbc, mbc_mode, mbc_data, current_rom_bank, current_ram_bank, rtc_access
    os,              \* what the process holds: the open descriptor, the three mappings, the heap buffer
    ram,             \* the non-zero bytes of [0x8000, 0x10000): a set of <<address, byte>>
    ram_banks,       \* mem->ram_banks: per bank written so far, its bytes (keyed by window address)
    highmem_blocks,  \* vm->highmem_blocks: per offset from 0xff80 compiled so far,
                     \* [exec_count, end_address, code]
    keys,            \* state->keys.state
    last,            \* the last call: [op, addr, value, ret, calls]
    rt               \* monitor of a RAM bank round trip: [st, a, b, snap, rtc, rtc_since]

vars == <<pc, rom, mem, os, ram, ram_banks, highmem_blocks, keys, last, rt>>

-----------------------------------------------------------------------------
(* Bounds of the model. *)

\* 16KiB banks in the ROM image (N_banks)
NBanks == 6
\* exec_count saturates here (the collaborator's counter is unbounded)
MaxExec == 2
\* compiled blocks live at the same time
MaxLive == 2

(* Program constants. *)

\* number of banks mem->ram_banks is allocated for
MAX_RAM_BANKS == 16
\* the descriptor open() returns
ROM_FD == 3

-----------------------------------------------------------------------------
(* C integer arithmetic. *)

RECURSIVE BitAnd(_, _)
BitAnd(x, y) ==
    IF x = 0 \/ y = 0 THEN 0
    ELSE (x % 2) * (y % 2) + 2 * BitAnd(x \div 2, y \div 2)

RECURSIVE BitOr(_, _)
BitOr(x, y) ==
    IF x = 0 THEN y
    ELSE IF y = 0 THEN x
    ELSE (IF x % 2 = 1 \/ y % 2 = 1 THEN 1 ELSE 0) + 2 * BitOr(x \div 2, y \div 2)

\* ~x of an int, cut to the 8 bits a uint8_t keeps
Not8(x) == 255 - (x % 256)

\* (uint8_t) x
U8(x) == x % 256

-----------------------------------------------------------------------------
(* The cartridge image and the guest's view of memory. *)

MbcKinds ==
    {"MBC_NONE", "MBC1", "MBC1_RAM_BAT", "MBC2", "MBC2_BAT",
     "MBC3", "MBC3_RAM_BAT", "MBC3_TIMER_RAM_BAT", "MBC5", "MBC5_RAM_BAT",
     "MBC_UNKNOWN"}

Mbc1Family == {"MBC1", "MBC1_RAM_BAT", "MBC2", "MBC2_BAT"}
Mbc3Family == {"MBC3", "MBC3_RAM_BAT", "MBC3_TIMER_RAM_BAT"}
Mbc5Family == {"MBC5", "MBC5_RAM_BAT"}

\* results of a load that does not return a byte
SEGV == -1
SIGBUS == -2

\* byte `off` of the ROM file: every bank differs from every other at every offset
ImageByte(off) ==
    IF off >= NBanks * \h4000 THEN SIGBUS
    ELSE ((off \div \h4000) * 37 + off) % 256

\* the byte stored at a, of a set of <<address, byte>>; bytes not in the set are 0
ByteAt(bytes, a) ==
    IF \E p \in bytes : p[1] = a THEN (CHOOSE p \in bytes : p[1] = a)[2] ELSE 0

\* bytes with address a set to v
Store(bytes, a, v) ==
    {p \in bytes : p[1] # a} \cup (IF v = 0 THEN {} ELSE {<<a, v>>})

\* the external RAM window [0xa000, 0xc000) of the guest's memory
Window(bytes) == {p \in bytes : p[1] >= \ha000 /\ p[1] < \hc000}

\* a load of guest address a, under the mappings o and with the bytes stored
Load(o, bytes, a) ==
    IF a < \h4000 THEN
        (IF o.lo = "file" THEN ImageByte(a) ELSE IF o.lo = "anon" THEN 0 ELSE SEGV)
    ELSE IF a < \h8000 THEN
        (IF o.win = "file" THEN ImageByte(o.win_off + (a - \h4000))
         ELSE IF o.win = "anon" THEN 0 ELSE SEGV)
    ELSE IF o.hi = "anon" THEN ByteAt(bytes, a) ELSE SEGV

\* a load of guest address a in the current state
Read(a) == Load(os, ram, a)

-----------------------------------------------------------------------------
(* The record of a call. *)

Call(c, a, ok) == [call |-> c, arg |-> a, ok |-> ok]

Op(op, addr, value, ret, calls) ==
    [op |-> op, addr |-> addr, value |-> value, ret |-> ret, calls |-> calls]

\* the round trip monitor: idle, and switched off
NoRt == [st |-> "idle", a |-> 0, b |-> 0, snap |-> {}, rtc |-> FALSE, rtc_since |-> FALSE]
RtOff == [NoRt EXCEPT !.st = "off"]

NoBlock == [exec_count |-> 0, end_address |-> 0, code |-> FALSE]

\* vm->highmem_blocks[i]: an entry never compiled is not live
BlockAt(blocks, i) == IF i \in DOMAIN blocks THEN blocks[i] ELSE NoBlock

\* the live blocks' offsets
Live(blocks) == {i \in DOMAIN blocks : blocks[i].exec_count # 0}

-----------------------------------------------------------------------------
(* Construction. *)

InitSession ==
    /\ pc = "start"
    /\ rom \in [file : BOOLEAN, cart : MbcKinds]
    /\ (~rom.file => rom.cart = "MBC_NONE")
    /\ mem = [fd |-> -1, mbc |-> "MBC_NONE", mbc_mode |-> 0, mbc_data |-> 0,
              current_rom_bank |-> 0, current_ram_bank |-> 0, rtc_access |-> FALSE]
    /\ os = [fd_open |-> FALSE, lo |-> "none", win |-> "none", win_off |-> 0,
             hi |-> "none", heap |-> FALSE, oob |-> FALSE]
    /\ ram = {}
    /\ ram_banks = [b \in {} |-> {}]
    /\ highmem_blocks = [i \in {} |-> NoBlock]
    /\ keys = 0
    /\ last = Op("none", 0, 0, TRUE, <<>>)

Init == InitSession /\ rt = RtOff

\* gb_memory_init(mem, filename); `fail` is the system call that fails (0: none)
gb_memory_init(fail) ==
    /\ pc = "start"
    /\ UNCHANGED <<rom, ram, ram_banks, highmem_blocks, keys, rt>>
    /\ IF ~rom.file THEN
           IF fail = 1 THEN
               /\ pc' = "init_failed"
               /\ mem' = [mem EXCEPT !.fd = -1]
               /\ os' = os
               /\ last' = Op("init", 0, 0, FALSE, <<Call("mmap", 0, FALSE)>>)
           ELSE
               /\ pc' = "ready"
               /\ mem' = [fd |-> -1, mbc |-> "MBC_NONE", mbc_mode |-> 0, mbc_data |-> 0,
                          current_rom_bank |-> 1, current_ram_bank |-> 0,
                          rtc_access |-> FALSE]
               /\ os' = [os EXCEPT !.lo = "anon", !.win = "anon", !.hi = "anon",
                                   !.heap = TRUE]
               /\ last' = Op("init", 0, 0, TRUE, <<Call("mmap", 0, TRUE)>>)
       ELSE IF fail = 1 THEN
           /\ pc' = "init_failed"
           /\ mem' = [mem EXCEPT !.fd = -1]
           /\ os' = os
           /\ last' = Op("init", 0, 0, FALSE, <<Call("open", 0, FALSE)>>)
       ELSE IF fail = 2 THEN
           /\ pc' = "init_failed"
           /\ mem' = [mem EXCEPT !.fd = ROM_FD]
           /\ os' = [os EXCEPT !.fd_open = TRUE]
           /\ last' = Op("init", 0, 0, FALSE,
                         <<Call("open", 0, TRUE), Call("mmap", 0, FALSE)>>)
       ELSE IF fail = 3 THEN
           /\ pc' = "init_failed"
           /\ mem' = [mem EXCEPT !.fd = ROM_FD]
           /\ os' = [os EXCEPT !.fd_open = TRUE, !.lo = "file", !.win = "file",
                               !.win_off = \h4000]
           /\ last' = Op("init", 0, 0, FALSE,
                         <<Call("open", 0, TRUE), Call("mmap", 0, TRUE),
                           Call("mmap", \h8000, FALSE)>>)
       ELSE
           /\ pc' = "ready"
           /\ mem' = [fd |-> ROM_FD, mbc |-> rom.cart, mbc_mode |-> 0, mbc_data |-> 0,
                      current_rom_bank |-> 1, current_ram_bank |-> 0,
                      rtc_access |-> FALSE]
           /\ os' = [os EXCEPT !.fd_open = TRUE, !.lo = "file", !.win = "file",
                               !.win_off = \h4000, !.hi = "anon", !.heap = TRUE]
           /\ last' = Op("init", 0, 0, TRUE,
                         <<Call("open", 0, TRUE), Call("mmap", 0, TRUE),
                           Call("mmap", \h8000, TRUE)>>)

\* gb_memory_free(mem); `fail` is the munmap that fails (0: none)
gb_memory_free(fail) ==
    /\ pc = "ready"
    /\ pc' = "freed"
    /\ UNCHANGED <<rom, mem, ram, ram_banks, highmem_blocks, keys, rt>>
    /\ IF fail = 1 THEN
           /\ os' = [os EXCEPT !.heap = FALSE, !.fd_open = FALSE]
           /\ last' = Op("free", 0, 0, FALSE,
                         <<Call("free", 0, TRUE), Call("close", mem.fd, mem.fd >= 0),
                           Call("munmap", 0, FALSE)>>)
       ELSE IF fail = 2 THEN
           /\ os' = [os EXCEPT !.heap = FALSE, !.fd_open = FALSE,
                               !.lo = "none", !.win = "none"]
           /\ last' = Op("free", 0, 0, FALSE,
                         <<Call("free", 0, TRUE), Call("close", mem.fd, mem.fd >= 0),
                           Call("munmap", 0, TRUE), Call("munmap", \h8000, FALSE)>>)
       ELSE
           /\ os' = [os EXCEPT !.heap = FALSE, !.fd_open = FALSE,
                               !.lo = "none", !.win = "none", !.hi = "none"]
           /\ last' = Op("free", 0, 0, TRUE,
                         <<Call("free", 0, TRUE), Call("close", mem.fd, mem.fd >= 0),
                           Call("munmap", 0, TRUE), Call("munmap", \h8000, TRUE)>>)

-----------------------------------------------------------------------------
(* The handlers, as functions of the state S they run in:                  *)
(* [mem, os, ram, ram_banks, blocks, calls, rt, crashed].                  *)

Here ==
    [mem |-> mem, os |-> os, ram |-> ram, ram_banks |-> ram_banks,
     blocks |-> highmem_blocks, calls |-> <<>>, rt |-> rt, crashed |-> FALSE]

\* the write is an RTC-exposing selection (MBC3 family, [0x4000, 0x6000), value > 4)
IsRtcSelect(mbc, addr, value) ==
    mbc \in Mbc3Family /\ addr >= \h4000 /\ addr < \h6000 /\ value > 4

\* the round trip monitor at a call of gb_memory_change_ram_bank(bank): a
\* selection of another bank starts a round trip or, when it selects the bank
\* the trip left, ends it
RtSelect(S, bank) ==
    IF S.rt.st = "off" THEN S.rt
    ELSE IF bank = S.mem.current_ram_bank THEN [S.rt EXCEPT !.rtc_since = FALSE]
    ELSE IF S.rt.st = "away" /\ bank = S.rt.a /\ S.mem.current_ram_bank = S.rt.b
    THEN [S.rt EXCEPT !.st = "back", !.rtc_since = FALSE]
    ELSE [st |-> "away", a |-> S.mem.current_ram_bank, b |-> bank,
          snap |-> Window(S.ram), rtc |-> S.rt.rtc_since, rtc_since |-> FALSE]

\* the round trip monitor at any other write
RtOther(S, isRtc) ==
    IF S.rt.st = "off" THEN S.rt
    ELSE IF S.rt.st = "back" THEN [NoRt EXCEPT !.rtc_since = isRtc]
    ELSE [S.rt EXCEPT !.rtc_since = isRtc \/ S.rt.rtc_since]

\* gb_memory_change_ram_bank(mem, bank); g is what a read of the store's
\* uninitialised memory, or of memory past its end, returns
gb_memory_change_ram_bank(S, bank, g) ==
    IF S.mem.current_ram_bank = bank
    THEN [S EXCEPT !.rt = RtSelect(S, bank),
                   !.calls = S.calls \o <<Call("change_ram_bank", bank, TRUE)>>]
    ELSE
        LET cur == S.mem.current_ram_bank
            saved ==
                IF S.mem.rtc_access \/ cur >= MAX_RAM_BANKS THEN S.ram_banks
                ELSE [b \in DOMAIN S.ram_banks \cup {cur} |->
                         IF b = cur THEN Window(S.ram) ELSE S.ram_banks[b]]
            loaded == IF bank \in DOMAIN saved THEN saved[bank] ELSE g
            oob == (~S.mem.rtc_access /\ cur >= MAX_RAM_BANKS) \/ bank >= MAX_RAM_BANKS
        IN  [S EXCEPT !.ram_banks = saved,
                      !.ram = (S.ram \ Window(S.ram)) \cup loaded,
                      !.mem = [S.mem EXCEPT !.rtc_access = FALSE, !.current_ram_bank = bank],
                      !.os = [S.os EXCEPT !.oob = S.os.oob \/ oob],
                      !.rt = RtSelect(S, bank),
                      !.calls = S.calls \o <<Call("change_ram_bank", bank, TRUE)>>]

\* the file offset the switchable window is mapped at for `bank`
RomBankOffset(bank) == \h4000 * bank

\* gb_memory_change_rom_bank(mem, bank); `fail` is the system call that fails (0: none)
gb_memory_change_rom_bank(S, bank, fail) ==
    LET enter == S.calls \o <<Call("change_rom_bank", bank, TRUE)>> IN
    IF S.mem.current_rom_bank = bank THEN [S EXCEPT !.calls = enter]
    ELSE IF fail = 1 THEN
        [S EXCEPT !.calls = enter \o <<Call("munmap", \h4000, FALSE)>>]
    ELSE IF fail = 2 \/ ~S.os.fd_open THEN
        [S EXCEPT !.os = [S.os EXCEPT !.win = "none"],
                  !.calls = enter \o <<Call("munmap", \h4000, TRUE),
                                       Call("mmap", RomBankOffset(bank), FALSE)>>]
    ELSE
        [S EXCEPT !.os = [S.os EXCEPT !.win = "file", !.win_off = RomBankOffset(bank)],
                  !.mem = [S.mem EXCEPT !.current_rom_bank = bank],
                  !.calls = enter \o <<Call("munmap", \h4000, TRUE),
                                       Call("mmap", RomBankOffset(bank), TRUE)>>]

\* gb_memory_access_rtc(mem, elt)
gb_memory_access_rtc(S, elt) ==
    [S EXCEPT !.ram = Store(S.ram, \ha000, 0),
              !.mem = [S.mem EXCEPT !.rtc_access = TRUE]]

\* gb_memory_update_rtc_time(mem, value)
gb_memory_update_rtc_time(S, value) == S

\* get_joypad_state without the final complement
get_joypad_state_NoComplement(ks, value) ==
    LET r1 == IF BitAnd(value, \hef) # 0 THEN BitAnd(ks, \h0f) ELSE 0
    IN  IF BitAnd(value, \hdf) # 0 THEN BitOr(r1, ks \div 16) ELSE r1

\* get_joypad_state(keys, value)
get_joypad_state(ks, value) ==
    LET r1 == IF BitAnd(value, \hef) # 0 THEN BitAnd(ks, \h0f) ELSE 0
        r2 == IF BitAnd(value, \hdf) # 0 THEN BitOr(r1, ks \div 16) ELSE r1
    IN  Not8(r2)

\* Mbc1RomBank without the step that forces the low bits off zero
Mbc1RomBank_NoQuirk(value, mbc_mode, mbc_data) ==
    BitOr(BitAnd(value, \h1f), IF mbc_mode # 0 THEN 0 ELSE BitAnd(mbc_data, \h60))

\* the ROM bank an MBC1-family write of `value` to [0x2000, 0x4000) asks for
Mbc1RomBank(value, mbc_mode, mbc_data) ==
    LET bank == BitOr(BitAnd(value, \h1f),
                      IF mbc_mode # 0 THEN 0 ELSE BitAnd(mbc_data, \h60))
    IN  IF BitAnd(bank, \h1f) = 0 THEN BitOr(bank, 1) ELSE bank

\* Mbc1Latch shifting by 4 instead of 5
Mbc1Latch_Shift4(value) == U8(value * 16)

\* the upper bits an MBC1-family write of `value` to [0x4000, 0x6000) latches
Mbc1Latch(value) == U8(value * 32)

\* the ROM bank an MBC3-family write of `value` to [0x2000, 0x4000) asks for
Mbc3RomBank(value) ==
    LET bank == BitAnd(value, \h7f) IN IF bank = 0 THEN 1 ELSE bank

\* Mbc5RomBank with the zero-bank quirk of the other families
Mbc5RomBank_ZeroQuirk(value) == IF value = 0 THEN 1 ELSE value

\* the ROM bank an MBC5 write of `value` to [0x2000, 0x4000) asks for
Mbc5RomBank(value) == value

\* MbcWrite with every variant treated as MBC5
MbcWrite_AllAsMbc5(S, addr, value, fail, g) ==
    IF addr >= \h4000 THEN gb_memory_change_ram_bank(S, value, g)
    ELSE IF addr >= \h2000 THEN gb_memory_change_rom_bank(S, value, fail)
    ELSE S

\* the switch on mem->mbc of a write below 0x8000
MbcWrite(S, addr, value, fail, g) ==
    LET m == S.mem IN
    IF m.mbc \in Mbc1Family THEN
        IF addr >= \h6000 THEN
            [S EXCEPT !.mem = [m EXCEPT !.mbc_mode = BitAnd(value, 1)]]
        ELSE IF addr >= \h4000 THEN
            IF m.mbc_mode # 0 THEN gb_memory_change_ram_bank(S, value, g)
            ELSE [S EXCEPT !.mem = [m EXCEPT !.mbc_data = Mbc1Latch(value)]]
        ELSE IF addr >= \h2000 THEN
            gb_memory_change_rom_bank(S, Mbc1RomBank(value, m.mbc_mode, m.mbc_data), fail)
        ELSE S
    ELSE IF m.mbc \in Mbc3Family THEN
        IF addr >= \h6000 THEN gb_memory_update_rtc_time(S, value)
        ELSE IF addr >= \h4000 THEN
            IF value <= 4 THEN gb_memory_change_ram_bank(S, value, g)
            ELSE gb_memory_access_rtc(S, value)
        ELSE IF addr >= \h2000 THEN
            gb_memory_change_rom_bank(S, Mbc3RomBank(value), fail)
        ELSE S
    ELSE IF m.mbc \in Mbc5Family THEN
        IF addr >= \h4000 THEN gb_memory_change_ram_bank(S, value, g)
        ELSE IF addr >= \h2000 THEN
            gb_memory_change_rom_bank(S, Mbc5RomBank(value), fail)
        ELSE S
    ELSE S

\* Stale without the test of exec_count
Stale_NoLiveGuard(blk, addr) == blk.end_address > addr

\* Stale with the bound on end_address let slip by one
Stale_EndInclusive(blk, addr) == blk.exec_count # 0 /\ blk.end_address >= addr

\* the condition under which the scan invalidates block blk for a write to addr
Stale(blk, addr) == blk.exec_count # 0 /\ blk.end_address > addr

\* the offsets from 0xff80 the scan of a write to addr visits
Scanned(addr) == {i \in 0 .. \h7f : i < addr - \hff80}

\* free_block(block): the collaborator releases the block's compiled code
free_block(blk) == [blk EXCEPT !.code = FALSE]

\* the invalidation loop of a write to addr >= 0xff80
InvalidateBlocks(S, addr) ==
    LET hit == {i \in Scanned(addr) \cap DOMAIN S.blocks : Stale(S.blocks[i], addr)}
        order == [k \in 1 .. Cardinality(hit) |->
                     CHOOSE i \in hit : Cardinality({j \in hit : j < i}) = k - 1]
    IN  [S EXCEPT !.blocks = [i \in DOMAIN S.blocks |->
                                 IF i \in hit
                                 THEN [free_block(S.blocks[i]) EXCEPT !.exec_count = 0]
                                 ELSE S.blocks[i]],
                  !.calls = S.calls \o
                            [k \in 1 .. Cardinality(hit) |->
                                Call("free_block", order[k], S.blocks[order[k]].code)]]

\* DmaSource with the page taken as 128 bytes
DmaSource_Shift7(value) == [k \in 0 .. \h9f |-> k + value * 128]

\* the source bytes of a DMA transfer from page `value`
DmaSource(value) == [k \in 0 .. \h9f |-> k + value * 256]

\* write to 0xff46: the store, then the copy of 0xa0 bytes to 0xfe00
DmaWrite(S, addr, value) ==
    LET stored == Store(S.ram, addr, value)
        src == DmaSource(value)
        byte == [k \in 0 .. \h9f |->
                    IF src[k] >= \h8000 THEN ByteAt(stored, src[k]) ELSE Read(src[k])]
        fault == \E k \in 0 .. \h9f : byte[k] < 0
        copied == {p \in stored : p[1] < \hfe00 \/ p[1] >= \hfea0}
                  \cup {<<\hfe00 + k, byte[k]>> : k \in {j \in 0 .. \h9f : byte[j] > 0}}
    IN  IF fault THEN [S EXCEPT !.ram = stored, !.crashed = TRUE]
        ELSE [S EXCEPT !.ram = copied]

\* the body of gb_memory_write(state, addr, value)
Write(S, addr0, value0, fail, g) ==
    LET addr == addr0 % 65536
        value == value0 % 256
        T == [S EXCEPT !.rt = RtOther(S, IsRtcSelect(S.mem.mbc, addr, value))]
    IN  IF addr < \h8000 THEN MbcWrite(T, addr, value, fail, g)
        ELSE IF addr = \hff05 THEN [T EXCEPT !.ram = Store(S.ram, addr, 0)]
        ELSE IF addr = \hff00 THEN
            [T EXCEPT !.ram = Store(S.ram, addr, get_joypad_state(keys, value))]
        ELSE IF addr = \hff01 THEN T
        ELSE IF addr = \hff46 THEN DmaWrite(T, addr, value)
        ELSE IF addr >= \hff80 THEN
            LET U == InvalidateBlocks(T, addr)
            IN  [U EXCEPT !.ram = Store(S.ram, addr, value)]
        ELSE [T EXCEPT !.ram = Store(S.ram, addr, value)]

\* gb_memory_write(state, addr, value) as a step of the session
gb_memory_write(addr, value, fail, g) ==
    /\ pc = "ready"
    /\ \E T \in {Write(Here, addr, value, fail, g)} :
           /\ pc' = IF T.crashed THEN "crashed" ELSE pc
           /\ mem' = T.mem
           /\ os' = T.os
           /\ ram' = T.ram
           /\ ram_banks' = T.ram_banks
           /\ highmem_blocks' = T.blocks
           /\ rt' = T.rt
           /\ last' = Op("write", addr, value, TRUE, T.calls)
    /\ UNCHANGED <<rom, keys>>

\* compile(vm, pc, block) of the collaborator: the block at offset i becomes live
CompileBlock(i, e) ==
    /\ pc = "ready"
    /\ BlockAt(highmem_blocks, i).exec_count = 0
    /\ Cardinality(Live(highmem_blocks)) < MaxLive
    /\ e > \hff80 + i
    /\ highmem_blocks' = [j \in DOMAIN highmem_blocks \cup {i} |->
                             IF j = i
                             THEN [exec_count |-> 1, end_address |-> e, code |-> TRUE]
                             ELSE highmem_blocks[j]]
    /\ last' = Op("compile", \hff80 + i, e, TRUE, <<>>)
    /\ UNCHANGED <<pc, rom, mem, os, ram, ram_banks, keys, rt>>

\* the collaborator runs the live block at offset i once more
ExecBlock(i) ==
    /\ pc = "ready"
    /\ i \in Live(highmem_blocks)
    /\ highmem_blocks[i].exec_count < MaxExec
    /\ highmem_blocks' = [highmem_blocks EXCEPT ![i].exec_count = @ + 1]
    /\ last' = Op("exec", \hff80 + i, 0, TRUE, <<>>)
    /\ UNCHANGED <<pc, rom, mem, os, ram, ram_banks, keys, rt>>

\* the frontend records the keys held down in state->keys.state
SetKeys(k) ==
    /\ pc = "ready"
    /\ keys # k
    /\ keys' = k
    /\ last' = Op("keys", 0, k, TRUE, <<>>)
    /\ UNCHANGED <<pc, rom, mem, os, ram, ram_banks, highmem_blocks, rt>>

-----------------------------------------------------------------------------
(* What the record of the last call says. *)

\* the calls named c the last operation made
CallsOf(op, c) == {k \in DOMAIN op.calls : op.calls[k].call = c}

\* a system call of the operation failed
Failed(op) ==
    \E k \in DOMAIN op.calls :
        op.calls[k].call \in {"open", "mmap", "munmap"} /\ ~op.calls[k].ok

\* the operation is a guest write to [lo, hi)
WriteTo(op, lo, hi) == op.op = "write" /\ op.addr >= lo /\ op.addr < hi

-----------------------------------------------------------------------------
(* The inputs the specifications draw. *)

\* writes to the bank controller, <<address, value>>: ROM bank selections,
\* latches and RAM bank selections, mode switches, and the unused range
RomSelects ==
    ({\h2000, \h3fff} \X {\h00, \h05}) \cup ({\h2100} \X {\h00, \h05, \h20, \h80})
Latches == {<<\h4000, \h01>>, <<\h5fff, \h03>>}
Modes == {\h6000} \X {\h00, \h01}
Unused == {<<\h1fff, \h01>>}
MbcWrites == RomSelects \cup Latches \cup Modes \cup Unused

\* a session's writes: ROM bank selections of every variant
SessionWrites == {\h2100, \h3fff} \X {\h00, \h02, \h05}

\* RAM bank selections, and stores into the external RAM window
RamWrites == ({\h4000} \X {\h00, \h01, \h08}) \cup {<<\h6000, \h01>>, <<\h5fff, \h10>>}
WindowWrites == {\ha000, \hbfff} \X {\h55}

\* what a read of uninitialised store memory may return
Garbage == {{}, {<<\hbfff, \hcd>>}}

\* compiled blocks in high memory, and stores into it
BlockStarts == {\h00, \h20, \h25}
BlockEnds == {\hff90, \hffa0, \hffa6}
HighWrites == {\hff80, \hff85, \hffa0, \hffa5} \X {\h3e}

\* the keys held down: none, and a pattern whose two nibbles differ
KeyStates == {\h00, \h5a}

\* stores to the I/O registers and to work RAM: joypad, serial data, timer
\* counter, DMA from ROM bank 0, the switchable window, work RAM, OAM itself
\* and the I/O page, and plain stores that make the DMA sources differ
JoypadWrites == {\hff00} \X {\h10, \h20, \h30, \hff}
DmaWrites == {\hff46} \X {\h00, \h40, \hc0, \hfe, \hff}
IoWrites ==
    JoypadWrites \cup DmaWrites
    \cup {<<\hff01, \h41>>, <<\hff05, \h77>>, <<\hc09f, \h22>>}

MemoryInit == \E fail \in 0 .. 3 : gb_memory_init(fail)

MemoryFree == \E fail \in 0 .. 2 : gb_memory_free(fail)

\* the write makes a system call, which may fail
Remaps(w) ==
    LET calls == Write(Here, w[1], w[2], 0, {}).calls
    IN  \E k \in DOMAIN calls : calls[k].call = "munmap"

\* the write reads store memory never written, which may hold anything
ReadsGarbage(w) == Write(Here, w[1], w[2], 0, {}) # Write(Here, w[1], w[2], 0, {<<0, 0>>})

Stores(writes, fails, garbage) ==
    \E w \in writes :
        \E fail \in IF fails # {0} /\ Remaps(w) THEN fails ELSE {0},
           g \in IF garbage # {{}} /\ ReadsGarbage(w) THEN garbage ELSE {{}} :
            gb_memory_write(w[1], w[2], fail, g)

SessionStore == Stores(SessionWrites, 0 .. 2, {{}})

MbcStore == Stores(MbcWrites, 0 .. 2, {{}})

RamSelect == Stores(RamWrites, {0}, Garbage)

WindowStore == Stores(WindowWrites, {0}, {{}})

HighStore == Stores(HighWrites, {0}, {{}})

IoStore == Stores(IoWrites, {0}, {{}})

Press == \E k \in KeyStates : SetKeys(k)

Compile == \E i \in BlockStarts, e \in BlockEnds : CompileBlock(i, e)

Exec == \E i \in BlockStarts : ExecBlock(i)

-----------------------------------------------------------------------------
(* The specifications: a session's life with the bank controller driven,   *)
(* one with the external RAM driven, one with high memory driven, one with  *)
(* the I/O registers driven.                                               *)

Next == MemoryInit \/ SessionStore \/ MemoryFree

Spec == Init /\ [][Next]_vars

InitMbc == Init /\ rom.file

NextMbc == MemoryInit \/ MbcStore

SpecMbc == InitMbc /\ [][NextMbc]_vars

\* the round trip monitor is on
InitRam == InitSession /\ rt = NoRt /\ rom.cart \in {"MBC1", "MBC3", "MBC5"}

NextRam == MemoryInit \/ RamSelect \/ WindowStore

SpecRam == InitRam /\ [][NextRam]_vars

InitHigh == Init /\ rom.cart = "MBC_NONE"

NextHigh == MemoryInit \/ Compile \/ Exec \/ HighStore

SpecHigh == InitHigh /\ [][NextHigh]_vars

InitIo == Init /\ rom.cart = "MBC_NONE"

NextIo == MemoryInit \/ Press \/ IoStore

SpecIo == InitIo /\ [][NextIo]_vars

-----------------------------------------------------------------------------
(* High memory: the invalidation of compiled blocks (SpecHigh). *)

\* the last write called free_block on the block at offset i
Freed(op, i) == \E k \in CallsOf(op, "free_block") : op.calls[k].arg = i

\* C1: after a write to a in [0xff80, 0x10000), no block whose range
\* [start, end_address) holds a is live, whatever its start offset (a block
\* live after the write was live before it: a write makes no block live).
C1_NoLiveBlockHoldsWrittenAddress ==
    WriteTo(last, \hff80, \h10000) =>
        \A i \in Live(highmem_blocks) :
            ~(\hff80 + i <= last.addr /\ last.addr < highmem_blocks[i].end_address)

\* C2: a write to a in [0xff80, 0x10000) invalidates a live block the scan
\* visits (offset below a - 0xff80) exactly when its end_address is greater
\* than a: free_block is called on it and it is not live afterwards;
\* every other visited block stays as it was.
C2_InvalidatedIffEndBeyond ==
    [][WriteTo(last', \hff80, \h10000) =>
          \A i \in Live(highmem_blocks) :
              i < last'.addr - \hff80 =>
                  IF highmem_blocks[i].end_address > last'.addr
                  THEN highmem_blocks'[i].exec_count = 0 /\ Freed(last', i)
                  ELSE highmem_blocks'[i] = highmem_blocks[i] /\ ~Freed(last', i)]_vars

\* C2's case: write(0xff85) has invalidated the block at the region base,
\* whose end_address is 0xff90, and has left another block live
C2_Witness ==
       /\ WriteTo(last, \hff85, \hff86)
       /\ 0 \in DOMAIN highmem_blocks
       /\ highmem_blocks[0].end_address = \hff90
       /\ highmem_blocks[0].exec_count = 0
       /\ Freed(last, 0)
       /\ \E i \in Live(highmem_blocks) : highmem_blocks[i].end_address > \hff85

-----------------------------------------------------------------------------
(* The session: construction, ROM bank switching, teardown (Spec). *)

\* the bank the last write passed to gb_memory_change_rom_bank, if it called it
Selected(op) == {op.calls[k].arg : k \in CallsOf(op, "change_rom_bank")}

\* offsets of the switchable window the claims read
ProbeOffsets == {\h0000, \h0001, \h0147, \h3fff}

\* the switchable window shows `bank` of the image
Shows(bank) ==
    \A o \in ProbeOffsets : Read(\h4000 + o) = ImageByte(bank * \h4000 + o)

\* C3: once gb_memory_change_rom_bank(bank) has returned for a valid bank in
\* [1, NBanks) with no mapping failure, the switchable window reads the bytes
\* of that bank of the image and current_rom_bank is the bank mapped.
C3_SelectedBankIsMapped ==
    (pc = "ready" /\ last.op = "write" /\ ~Failed(last)) =>
        \A bank \in Selected(last) \cap (1 .. NBanks - 1) :
            /\ mem.current_rom_bank = bank
            /\ os.win = "file" /\ os.win_off = bank * \h4000
            /\ Shows(bank)

\* C5: when the unmap or the remap of a ROM bank switch fails, the mapped
\* state is as it was: the window shows what it showed, current_rom_bank is
\* unchanged, and the window can still be read.
C5_FailedSwitchChangesNothing ==
    [][(last'.op = "write" /\ Failed(last')) =>
          /\ os'.win = os.win /\ os'.win_off = os.win_off
          /\ mem'.current_rom_bank = mem.current_rom_bank
          /\ \A o \in ProbeOffsets : Read(\h4000 + o)' = Read(\h4000 + o)]_vars

\* C6: when gb_memory_init has failed, nothing it acquired is still held:
\* the descriptor is closed and no mapping is in place.
C6_FailedInitHoldsNothing ==
    pc = "init_failed" =>
        ~os.fd_open /\ os.lo = "none" /\ os.win = "none" /\ os.hi = "none" /\ ~os.heap

\* C7: gb_memory_free attempts both unmaps, of [0, 0x8000) and of
\* [0x8000, 0x10000), frees the RAM bank buffer, closes the descriptor, and
\* returns failure exactly when an unmap failed.
C7_TeardownTriesBothUnmaps ==
    last.op = "free" =>
        /\ \E k \in CallsOf(last, "munmap") : last.calls[k].arg = \h0000
        /\ \E k \in CallsOf(last, "munmap") : last.calls[k].arg = \h8000
        /\ ~os.heap /\ ~os.fd_open
        /\ (~last.ret <=> Failed(last))

-----------------------------------------------------------------------------
(* The bank controller (SpecMbc). *)

\* the last write selected a ROM bank and no mapping call of it failed
RomSelected(op) == WriteTo(op, \h2000, \h4000) /\ ~Failed(op) /\ pc = "ready"

\* bits 5 and 6 of the latched upper bits
Upper(mbc_data) == ((mbc_data \div 32) % 4) * 32

\* C8, as stated: an MBC1-family write of a value whose low 5 bits are zero
\* to [0x2000, 0x4000) selects ROM bank 1, in every mode and for every
\* latched upper_bits.
C8_ZeroSelectsBankOne ==
    (mem.mbc \in Mbc1Family /\ RomSelected(last) /\ last.value % 32 = 0) =>
        mem.current_rom_bank = 1

\* C8, amended: such a write selects the bank whose low 5 bits are 1 and
\* whose bits 5 and 6 are those of the latched upper_bits in mode 0, and
\* bank 1 in mode 1; so bank 1 when the latched bits 5 and 6 are zero.
C8_ZeroSelectsLowBitsOne ==
    (mem.mbc \in Mbc1Family /\ RomSelected(last) /\ last.value % 32 = 0) =>
        mem.current_rom_bank = IF mem.mbc_mode # 0 THEN 1 ELSE Upper(mem.mbc_data) + 1

\* C8's case: with upper bits latched in mode 0, write(0x2100, 0x00) has
\* remapped the window to bank 0x21
C8_Witness ==
    /\ mem.mbc \in Mbc1Family /\ RomSelected(last)
    /\ last.addr = \h2100 /\ last.value = \h00
    /\ mem.mbc_mode = 0 /\ mem.mbc_data = \h20
    /\ CallsOf(last, "mmap") # {}
    /\ mem.current_rom_bank = \h21

\* C9: on an MBC1-family cartridge in mode 0, a write (a1, v1) to
\* [0x4000, 0x6000) leaves the RAM bank and the external RAM alone, and the
\* write (a2, v2) to [0x2000, 0x4000) that follows it, with v2 & 0x1f # 0,
\* selects ROM bank (v2 & 0x1f) | ((v1 << 5) & 0x60); in mode 1 a write
\* (a2, v2) selects ROM bank v2 & 0x1f whatever upper bits are latched.
C9_BankComposition ==
    [][mem.mbc \in Mbc1Family =>
          /\ (mem.mbc_mode = 0 /\ WriteTo(last', \h4000, \h6000)) =>
                 /\ mem'.current_ram_bank = mem.current_ram_bank
                 /\ ram' = ram /\ ram_banks' = ram_banks
          /\ (RomSelected(last)' /\ last'.value % 32 # 0) =>
                 IF mem.mbc_mode # 0
                 THEN mem'.current_rom_bank = last'.value % 32
                 ELSE WriteTo(last, \h4000, \h6000) =>
                          mem'.current_rom_bank =
                              (last'.value % 32) + Upper(last.value * 32)
      ]_vars

\* C9's case: in mode 0, write(0x4000, 0x01) then write(0x2100, 0x05) has
\* remapped the window to bank 0x25
C9_Witness ==
    /\ mem.mbc \in Mbc1Family /\ RomSelected(last)
    /\ last.addr = \h2100 /\ last.value = \h05
    /\ mem.mbc_mode = 0 /\ mem.mbc_data = \h20
    /\ CallsOf(last, "mmap") # {}
    /\ mem.current_rom_bank = \h25
    /\ os.win_off = \h25 * \h4000

\* C10: on an MBC5 cartridge a write of v to [0x2000, 0x4000) selects ROM
\* bank v, unmasked; bank 0 included.
C10_Mbc5SelectsValue ==
    (mem.mbc \in Mbc5Family /\ RomSelected(last)) =>
        /\ mem.current_rom_bank = last.value
        /\ os.win_off = last.value * \h4000

\* C10's case: write(0x2100, 0x00) has remapped the window to bank 0
C10_Witness ==
    /\ mem.mbc \in Mbc5Family /\ RomSelected(last)
    /\ last.addr = \h2100 /\ last.value = \h00
    /\ CallsOf(last, "mmap") # {}
    /\ mem.current_rom_bank = 0

-----------------------------------------------------------------------------
(* The external RAM banks (SpecRam). *)

\* C4: for different RAM banks a and b of the store, the bytes the external
\* RAM window held when bank a was switched away from (to b) are the bytes it
\* holds once bank a is selected again, unless an RTC-exposing selection came
\* after the last RAM bank selection before the switch away.  (Bank a of the
\* store has been written, so what is read back is no uninitialised memory.)
C4_RamBankRoundTrip ==
    (/\ rt.st = "back" /\ ~rt.rtc
     /\ rt.a < MAX_RAM_BANKS /\ rt.b < MAX_RAM_BANKS
     /\ rt.a \in DOMAIN ram_banks) =>
        Window(ram) = rt.snap

-----------------------------------------------------------------------------
(* The bank controller's invariants and frame (SpecMbc, SpecRam). *)

\* C11: in every state of a session, for every cartridge variant,
\* current_rom_bank is non-zero and less than the image's bank count.
C11_RomBankInRange ==
    pc = "ready" => (mem.current_rom_bank >= 1 /\ mem.current_rom_bank < NBanks)

-----------------------------------------------------------------------------
(* The I/O registers (SpecIo). *)

\* the OAM region a DMA transfer fills
Oam == {a \in \hfe00 .. \hfe9f : TRUE}

\* C12: after write(0xff46, v) the 160 bytes at [0xfe00, 0xfea0) are, byte for
\* byte, the 160 bytes at [v << 8, (v << 8) + 0xa0), and the byte at 0xff46 is
\* v; no other byte of guest memory and nothing of the controller changes.
C12_DmaCopiesSourceBlock ==
    [][(last'.op = "write" /\ last'.addr = \hff46) =>
          /\ \A k \in 0 .. \h9f :
                 ByteAt(ram', \hfe00 + k) = Load(os', ram', last'.value * 256 + k)
          /\ ByteAt(ram', \hff46) = last'.value
          /\ \A p \in ram \cup ram' :
                 (p[1] \notin Oam /\ p[1] # \hff46) => (p \in ram /\ p \in ram')
          /\ UNCHANGED <<pc, mem, os, ram_banks, highmem_blocks, keys>>]_vars

\* a DMA from work RAM has copied the byte stored at 0xc09f, and one from the
\* I/O page the joypad byte
C12_Witness ==
    /\ last.op = "write" /\ last.addr = \hff46 /\ last.value = \hc0
    /\ ByteAt(ram, \hfe9f) = \h22
    /\ ByteAt(ram, \hff00) = \hf5


\* the last operation is a write to the joypad register
JoypadWritten == last.op = "write" /\ last.addr = \hff00

\* the byte at 0xff00 is the complement of the nibble the value written selects
JoypadNibbles ==
    LET b == ByteAt(ram, \hff00) IN
    /\ last.value = \h20 => b = 255 - (keys % 16)
    /\ last.value = \h10 => b = 255 - (keys \div 16)
    /\ last.value = \h30 => b = 255 - BitOr(keys % 16, keys \div 16)

\* C13 as stated: for every key state k, write(0xff00, 0x20) stores the
\* complement of the low nibble of k, write(0xff00, 0x10) the complement of the
\* high nibble shifted down, a write selecting both the complement of the OR
\* of both nibbles, and the byte stored is never the value written.
C13_JoypadNeverRawValue ==
    JoypadWritten => (JoypadNibbles /\ ByteAt(ram, \hff00) # last.value)

\* C13, amended: the same three stores; the byte stored has its four high bits
\* set, so it is not the value written whenever that value is below 0xf0.
C13_JoypadComplement ==
    JoypadWritten =>
        /\ JoypadNibbles
        /\ ByteAt(ram, \hff00) >= \hf0
        /\ last.value < \hf0 => ByteAt(ram, \hff00) # last.value

\* with keys 0x5a held, the write of 0x20 has stored 0xf5
C13_Witness ==
    JoypadWritten /\ last.value = \h20 /\ keys = \h5a /\ ByteAt(ram, \hff00) = \hf5

\* C15: after write(0xff01, v) the byte at 0xff01 is v.
C15_SerialDataStored ==
    (last.op = "write" /\ last.addr = \hff01) => ByteAt(ram, \hff01) = last.value

\* C17: on write(0xff46, v) the bytes copied to [0xfe00, 0xfea0) are the bytes
\* the source block [v << 8, (v << 8) + 0xa0) held before the write, the byte
\* at 0xff46 included.
C17_DmaCopiesBeforeStore ==
    [][(last'.op = "write" /\ last'.addr = \hff46) =>
          \A k \in 0 .. \h9f :
              ByteAt(ram', \hfe00 + k) = Load(os, ram, last'.value * 256 + k)]_vars

-----------------------------------------------------------------------------
(* The bank controller's frame (SpecMbc, SpecRam). *)

\* C14: on a cartridge of variant NONE or of an unrecognised variant, a write
\* below 0x8000 changes nothing: guest memory, current_rom_bank,
\* current_ram_bank, mode, upper bits, rtc_access, the RAM bank store and the
\* mappings stay as they are.
C14_NoControllerIgnoresWrites ==
    [][(/\ last'.op = "write" /\ last'.addr < \h8000
        /\ mem.mbc \in {"MBC_NONE", "MBC_UNKNOWN"}) =>
          UNCHANGED <<pc, mem, os, ram, ram_banks, highmem_blocks>>]_vars

\* an unrecognised variant has taken a write to the ROM bank register and
\* made no call
C14_Witness ==
    /\ last.op = "write" /\ last.addr = \h2100 /\ last.value = \h05
    /\ mem.mbc = "MBC_UNKNOWN" /\ last.calls = <<>> /\ mem.current_rom_bank = 1


\* C16: on an MBC3 cartridge every RAM bank selection (a write of a value <= 4
\* to [0x4000, 0x6000)) leaves rtc_access false, a selection of the bank that
\* is already current included.
C16_RamSelectClearsRtcLatch ==
    (/\ WriteTo(last, \h4000, \h6000) /\ last.value <= 4
     /\ mem.mbc \in Mbc3Family) => ~mem.rtc_access

\* C18: on an MBC5 cartridge a write of v to [0x4000, 0x6000) makes
\* current_ram_bank v, and a write to [0x6000, 0x8000) or below 0x2000 leaves
\* current_ram_bank, current_rom_bank and the external RAM window unchanged.
C18_Mbc5RamBankRegister ==
    [][(last'.op = "write" /\ mem.mbc \in Mbc5Family) =>
          /\ WriteTo(last', \h4000, \h6000) => mem'.current_ram_bank = last'.value
          /\ (WriteTo(last', \h6000, \h8000) \/ WriteTo(last', 0, \h2000)) =>
                 /\ mem'.current_ram_bank = mem.current_ram_bank
                 /\ mem'.current_rom_bank = mem.current_rom_bank
                 /\ Window(ram') = Window(ram)]_vars

-----------------------------------------------------------------------------
(* High memory: the guard of the invalidation (SpecHigh). *)

\* C19: a write to [0xff80, 0x10000) calls free_block only on blocks that are
\* live at the call, each at most once, and leaves each of them non-live; so
\* every block freed still holds its compiled code when it is freed.
C19_FreesOnlyLiveBlocks ==
    [][(last'.op = "write" /\ last'.addr >= \hff80) =>
          /\ \A k \in CallsOf(last', "free_block") :
                 /\ BlockAt(highmem_blocks, last'.calls[k].arg).exec_count # 0
                 /\ BlockAt(highmem_blocks', last'.calls[k].arg).exec_count = 0
                 /\ last'.calls[k].ok
          /\ \A j, k \in CallsOf(last', "free_block") :
                 last'.calls[j].arg = last'.calls[k].arg => j = k]_vars

\* the write has freed the block at offset 0 and passed over a scanned block
\* that ends beyond the address but was freed before
C19_Witness ==
    /\ last.op = "write" /\ Freed(last, 0)
    /\ ~BlockAt(highmem_blocks, 0).code
    /\ \E i \in Scanned(last.addr) \cap DOMAIN highmem_blocks :
           /\ i # 0 /\ ~Freed(last, i)
           /\ highmem_blocks[i].end_address > last.addr
           /\ highmem_blocks[i].exec_count = 0 /\ ~highmem_blocks[i].code

-----------------------------------------------------------------------------
(* The RAM bank store's bounds (SpecRam). *)

\* C20: every bank index passed to gb_memory_change_ram_bank, and so
\* current_ram_bank, is less than MAX_RAM_BANKS, the number of banks the store
\* was allocated for, and no save or load copy has left the store.
C20_RamBankIndexInStore ==
    /\ \A k \in CallsOf(last, "change_ram_bank") : last.calls[k].arg < MAX_RAM_BANKS
    /\ pc = "ready" => mem.current_ram_bank < MAX_RAM_BANKS
    /\ ~os.oob

=============================================================================
